---- MODULE Spec2Model ----
(***************************************************************************)
(* Model of the two object-storage adapters of components/file/s3:         *)
(* AliCloudOSS (alicloud/oss.go) and AwsOss (aws/oss.go).  One adapter     *)
(* instance is modelled: its endpoint->client and endpoint->config maps,   *)
(* the Init handler that fills them, client selection, and the five        *)
(* capability operations Put, Get, List, Del and Stat.                     *)
(***************************************************************************)
EXTENDS Integers, Sequences, FiniteSets, TLC

\* ------------------------------------------------------------------------
\* Bounds of the model
\* ------------------------------------------------------------------------
MaxCfg == 2
MaxClients == 3
MaxPathLen == 2
MaxKeyLen == 2
MaxPageSize == 2
MaxObjects == 3

\* ------------------------------------------------------------------------
\* Values
\* ------------------------------------------------------------------------
\* the metadata key that carries the endpoint hint
endpointKey == "endpoint"

\* endpoint identifiers a configuration may declare; one of them is spelled
\* like the metadata key itself
Endpoints == {"e1", "e2", "endpoint"}

\* a *oss.Client / *s3.Client is a positive number, the nil pointer is 0
NilClient == 0

\* characters of a path or of an object key, in ascending byte order
Alphabet == <<"/", "a">>
Chars == {Alphabet[i] : i \in 1..Len(Alphabet)}
Separator == Alphabet[1]

SeqsUpTo(S, n) == UNION {[1..k -> S] : k \in 0..n}

Paths == SeqsUpTo(Chars, MaxPathLen)
Keys == SeqsUpTo(Chars, MaxKeyLen) \ {<<>>}

\* call metadata: either no "endpoint" entry or an "endpoint" entry with a value
NoHint == [has |-> FALSE, ep |-> ""]
Hints == {NoHint} \cup {[has |-> TRUE, ep |-> e] : e \in Endpoints}

\* errors, named by the message or by the sentinel the code returns
NoErr == ""
ErrInvalid == "file.ErrInvalid"
ErrNotExist == "file.ErrNotExist"
ErrAwsInvalidConfig == "invalid config for aws oss"
ErrNotSpecifyEndpoint == "should specific endpoint in metadata"
ErrFileNameFormat == "invalid fileName format"
ErrNewClient == "client construction failed"
ErrBucket == "bucket handle failed"
ErrBackend == "backend error, original message kept"

\* a Go map lookup: the zero value when the key is absent
Lookup(m, k) == IF k \in DOMAIN m THEN m[k] ELSE NilClient

EmptyMap == [e \in {} |-> NilClient]

\* m with m[k] = v, as the Go assignment m[k] = v
MapPut(m, k, v) == [x \in DOMAIN m \cup {k} |-> IF x = k THEN v ELSE m[x]]

\* ------------------------------------------------------------------------
\* Configuration entries (OssMetadata / AwsOssMetaData)
\* ------------------------------------------------------------------------
OssMetadata ==
    [Endpoint : Endpoints \cup {""}, AccessKeyID : {"", "A"}, AccessKeySecret : {"", "S"}]

ValidEntries == {m \in OssMetadata : m.Endpoint # "" /\ m.AccessKeyID # "" /\ m.AccessKeySecret # ""}

\* the declared entries tried: every complete one, and one for each way of
\* being incomplete
InvalidEntries ==
    { [Endpoint |-> "", AccessKeyID |-> "A", AccessKeySecret |-> "S"],
      [Endpoint |-> "e1", AccessKeyID |-> "", AccessKeySecret |-> "S"],
      [Endpoint |-> "e2", AccessKeyID |-> "A", AccessKeySecret |-> ""] }

Entries == ValidEntries \cup InvalidEntries

ConfigLists == SeqsUpTo(Entries, MaxCfg)

checkMetadata(m) ==
    IF m.AccessKeySecret = "" \/ m.Endpoint = "" \/ m.AccessKeyID = "" THEN FALSE ELSE TRUE

isAwsMetaValid(am) ==
    IF am.AccessKeySecret = "" \/ am.EndPoint = "" \/ am.AccessKeyID = "" THEN FALSE ELSE TRUE

\* the AWS entry of a declared entry (same JSON fields, plus the region)
AwsOssMetaData(m) ==
    [Region |-> "us-west-2", EndPoint |-> m.Endpoint,
     AccessKeyID |-> m.AccessKeyID, AccessKeySecret |-> m.AccessKeySecret]

VARIABLES kind, client, metadata, made, inited, last, objects, walk

vars == <<kind, client, metadata, made, inited, last, objects, walk>>


\* ------------------------------------------------------------------------
\* Address parsing (package components/file/s3: GetBucketName, GetFileName,
\* GetFilePrefixName).  The first segment of the path is the bucket, the
\* remainder after the first separator is the key or the prefix; a path
\* with no separator (the empty path included) has no bucket and no key.
\* ------------------------------------------------------------------------
SepIndex(p) ==
    IF \E i \in 1..Len(p) : p[i] = Separator
    THEN CHOOSE i \in 1..Len(p) : p[i] = Separator /\ \A j \in 1..(i - 1) : p[j] # Separator
    ELSE 0

GetBucketName(fileName) ==
    IF SepIndex(fileName) = 0
    THEN [val |-> <<>>, err |-> ErrFileNameFormat]
    ELSE [val |-> SubSeq(fileName, 1, SepIndex(fileName) - 1), err |-> NoErr]

GetFileName(fileName) ==
    IF SepIndex(fileName) = 0
    THEN [val |-> <<>>, err |-> ErrFileNameFormat]
    ELSE [val |-> SubSeq(fileName, SepIndex(fileName) + 1, Len(fileName)), err |-> NoErr]

GetFilePrefixName(fileName) ==
    IF SepIndex(fileName) = 0
    THEN <<>>
    ELSE SubSeq(fileName, SepIndex(fileName) + 1, Len(fileName))

\* ------------------------------------------------------------------------
\* Init: the loop over the declared entries
\* ------------------------------------------------------------------------
\* The loops below take the maps and the number of clients made so far and
\* return the maps, the count and the error as Init leaves them.  fails is the
\* set of positions whose client construction (oss.New, LoadDefaultConfig)
\* returns an error.
InitResult(md, cl, n, e) == [metadata |-> md, client |-> cl, made |-> n, err |-> e]

RECURSIVE AliInitLoop(_, _, _, _, _, _)
AliInitLoop(m, i, md, cl, n, fails) ==
    IF i > Len(m) THEN InitResult(md, cl, n, NoErr)
    ELSE IF ~checkMetadata(m[i]) THEN InitResult(md, cl, n, ErrInvalid)
    ELSE IF i \in fails THEN InitResult(md, cl, n, ErrNewClient)
    ELSE AliInitLoop(m, i + 1, MapPut(md, m[i].Endpoint, m[i]),
                     MapPut(cl, m[i].Endpoint, n + 1), n + 1, fails)

\* AwsInitLoop, had it stored the config before constructing the client
RECURSIVE AwsInitLoop_MetaBeforeClient(_, _, _, _, _, _)
AwsInitLoop_MetaBeforeClient(m, i, md, cl, n, fails) ==
    IF i > Len(m) THEN InitResult(md, cl, n, NoErr)
    ELSE IF ~isAwsMetaValid(AwsOssMetaData(m[i])) THEN InitResult(md, cl, n, ErrAwsInvalidConfig)
    ELSE IF i \in fails
         THEN AwsInitLoop_MetaBeforeClient(m, i + 1,
                  MapPut(md, m[i].Endpoint, AwsOssMetaData(m[i])), cl, n, fails)
    ELSE AwsInitLoop_MetaBeforeClient(m, i + 1,
             MapPut(md, m[i].Endpoint, AwsOssMetaData(m[i])),
             MapPut(cl, m[i].Endpoint, n + 1), n + 1, fails)

RECURSIVE AwsInitLoop(_, _, _, _, _, _)
AwsInitLoop(m, i, md, cl, n, fails) ==
    IF i > Len(m) THEN InitResult(md, cl, n, NoErr)
    ELSE IF ~isAwsMetaValid(AwsOssMetaData(m[i])) THEN InitResult(md, cl, n, ErrAwsInvalidConfig)
    ELSE IF i \in fails THEN AwsInitLoop(m, i + 1, md, cl, n, fails)
    ELSE AwsInitLoop(m, i + 1, MapPut(md, m[i].Endpoint, AwsOssMetaData(m[i])),
                     MapPut(cl, m[i].Endpoint, n + 1), n + 1, fails)

\* ------------------------------------------------------------------------
\* The result of the last call, as the caller sees it
\* ------------------------------------------------------------------------
ReplyOK == [ok |-> TRUE, typed |-> TRUE, status |-> 200, nosuchkey |-> FALSE]

\* a backend failure: a typed service error with its status code, or an error
\* value of another type (no status); its message may hold "no such key"
ErrReplies ==
    {[ok |-> FALSE, typed |-> TRUE, status |-> s, nosuchkey |-> k] : s \in {404, 500}, k \in BOOLEAN}
    \cup {[ok |-> FALSE, typed |-> FALSE, status |-> 0, nosuchkey |-> k] : k \in BOOLEAN}

ReplyFail == [ok |-> FALSE, typed |-> TRUE, status |-> 500, nosuchkey |-> FALSE]

NoCall ==
    [op |-> "none", outcome |-> "ok", err |-> NoErr, first |-> FALSE, declared |-> {},
     invalid |-> FALSE, ctorFailed |-> FALSE, path |-> <<>>, hint |-> NoHint, used |-> NilClient,
     calls |-> <<>>, reply |-> ReplyOK]

NoWalk ==
    [active |-> FALSE, dir |-> <<>>, size |-> 0, hint |-> NoHint, marker |-> <<>>,
     acc |-> <<>>, pages |-> <<>>, done |-> FALSE]

DeclaredEndpoints(m) == {m[i].Endpoint : i \in 1..Len(m)}
HasInvalidEntry(m) == \E i \in 1..Len(m) : ~checkMetadata(m[i])
ConstructionFailed(m, fails) ==
    \E i \in fails : i <= Len(m) /\ \A j \in 1..i : checkMetadata(m[j])

InitCall(m, fails, r, isFirst) ==
    [NoCall EXCEPT !.op = "Init", !.err = r.err, !.first = isFirst,
                   !.outcome = IF r.err = NoErr THEN "ok" ELSE "error",
                   !.declared = DeclaredEndpoints(m),
                   !.invalid = HasInvalidEntry(m),
                   !.ctorFailed = ConstructionFailed(m, fails)]

\* ------------------------------------------------------------------------
\* State after construction (NewAliCloudOSS / NewAwsOss)
\* ------------------------------------------------------------------------
Init ==
    /\ kind \in {"alicloud", "aws"}
    /\ client = EmptyMap
    /\ metadata = EmptyMap
    /\ made = 0
    /\ inited = FALSE
    /\ last = NoCall
    /\ objects = {}
    /\ walk = NoWalk

\* AliCloudOSS.Init
AliInit ==
    /\ kind = "alicloud"
    /\ last.op = "none"
    /\ \E wellFormed \in BOOLEAN :
       \E m \in (IF wellFormed THEN ConfigLists ELSE {<<>>}) :
       \E fails \in SUBSET (1..Len(m)) :
          /\ made + Len(m) <= MaxClients
          /\ LET r == IF wellFormed
                      THEN AliInitLoop(m, 1, metadata, client, made, fails)
                      ELSE InitResult(metadata, client, made, ErrInvalid)
             IN /\ metadata' = r.metadata
                /\ client' = r.client
                /\ made' = r.made
                /\ last' = InitCall(m, fails, r, ~inited)
    /\ inited' = TRUE
    /\ walk' = NoWalk
    /\ UNCHANGED <<kind, objects>>

\* AwsOss.Init
AwsInit ==
    /\ kind = "aws"
    /\ last.op = "none"
    /\ \E wellFormed \in BOOLEAN :
       \E m \in (IF wellFormed THEN ConfigLists ELSE {<<>>}) :
       \E fails \in SUBSET (1..Len(m)) :
          /\ made + Len(m) <= MaxClients
          /\ LET r == IF wellFormed
                      THEN AwsInitLoop(m, 1, metadata, client, made, fails)
                      ELSE InitResult(metadata, client, made, ErrAwsInvalidConfig)
             IN /\ metadata' = r.metadata
                /\ client' = r.client
                /\ made' = r.made
                /\ last' = InitCall(m, fails, r, ~inited)
    /\ inited' = TRUE
    /\ walk' = NoWalk
    /\ UNCHANGED <<kind, objects>>

\* ------------------------------------------------------------------------
\* Client selection
\* ------------------------------------------------------------------------
Selected(c, e) == [client |-> c, err |-> e]

TheOnly(cl) == cl[CHOOSE e \in DOMAIN cl : TRUE]

\* AliCloudOSS.selectClient, had it tested for a non-empty map
AliSelectClient_AnyRegistered(cl) ==
    IF Cardinality(DOMAIN cl) >= 1
    THEN Selected(TheOnly(cl), NoErr)
    ELSE Selected(NilClient, ErrNotSpecifyEndpoint)

\* AliCloudOSS.selectClient
AliSelectClient(cl) ==
    IF Cardinality(DOMAIN cl) = 1
    THEN Selected(TheOnly(cl), NoErr)
    ELSE Selected(NilClient, ErrNotSpecifyEndpoint)

\* the first half of AliCloudOSS.getBucket: the client it goes on with
AliPickClient(cl, metaData) ==
    IF metaData.has
    THEN Selected(Lookup(cl, endpointKey), NoErr)
    ELSE AliSelectClient(cl)

\* AwsOss.selectClient
AwsSelectClient(cl, meta) ==
    IF meta.has /\ meta.ep \in DOMAIN cl
    THEN Selected(cl[meta.ep], NoErr)
    ELSE IF Cardinality(DOMAIN cl) = 1
         THEN Selected(TheOnly(cl), NoErr)
         ELSE Selected(NilClient, ErrNotSpecifyEndpoint)

\* ------------------------------------------------------------------------
\* The capability operations
\* ------------------------------------------------------------------------
\* What one call did: how it ended ("ok", "error", or "panic" for a run-time
\* abort), the error returned, the client the SDK calls went to, the SDK calls
\* made in order, and the listing returned by List.
NoResp == [Files |-> <<>>, Marker |-> <<>>, IsTruncated |-> FALSE]

Done(outcome, err, used, calls) ==
    [outcome |-> outcome, err |-> err, used |-> used, calls |-> calls, resp |-> NoResp]

\* AliCloudOSS.getBucket.  bucketOk: whether Client.Bucket accepts the bucket
\* name.  Client.Bucket has a value receiver, so calling it through a nil
\* *oss.Client dereferences nil and aborts the call.
AliGetBucket(cl, fileName, metaData, bucketOk) ==
    LET sel == AliPickClient(cl, metaData)
        bucketName == GetBucketName(fileName)
    IN IF sel.err # NoErr THEN Done("error", sel.err, NilClient, <<>>)
       ELSE IF bucketName.err # NoErr THEN Done("error", bucketName.err, NilClient, <<>>)
       ELSE IF sel.client = NilClient THEN Done("panic", NoErr, NilClient, <<>>)
       ELSE IF ~bucketOk THEN Done("error", ErrBucket, sel.client, <<"Bucket">>)
       ELSE Done("ok", NoErr, sel.client, <<"Bucket">>)

\* The common skeleton of AliCloudOSS.Put, Get and Del: the bucket, the key,
\* then one SDK call on the bucket.
AliObjectOp(cl, fileName, metaData, bucketOk, reply, sdkCall) ==
    LET bucket == AliGetBucket(cl, fileName, metaData, bucketOk)
        fileNameWithoutBucket == GetFileName(fileName)
    IN IF bucket.outcome # "ok" THEN bucket
       ELSE IF fileNameWithoutBucket.err # NoErr
            THEN Done("error", fileNameWithoutBucket.err, bucket.used, bucket.calls)
       ELSE IF ~reply.ok
            THEN Done("error", ErrBackend, bucket.used, Append(bucket.calls, sdkCall))
       ELSE Done("ok", NoErr, bucket.used, Append(bucket.calls, sdkCall))

\* AliCloudOSS.Stat: the type assertion err.(oss.ServiceError) aborts when the
\* error is of another type.
AliStatOp(cl, fileName, metaData, bucketOk, reply) ==
    LET r == AliObjectOp(cl, fileName, metaData, bucketOk, reply, "GetObjectMeta")
    IN IF r.calls # <<"Bucket", "GetObjectMeta">> \/ reply.ok THEN r
       ELSE IF ~reply.typed THEN Done("panic", NoErr, r.used, r.calls)
       ELSE IF reply.status = 404 THEN Done("error", ErrNotExist, r.used, r.calls)
       ELSE Done("error", ErrBackend, r.used, r.calls)

\* The common skeleton of AwsOss.Put, Get and Del: bucket and key, then the
\* client, then one SDK call on the client.
AwsObjectOp(cl, fileName, meta, reply, sdkCall) ==
    LET bucket == GetBucketName(fileName)
        key == GetFileName(fileName)
        sel == AwsSelectClient(cl, meta)
    IN IF bucket.err # NoErr THEN Done("error", bucket.err, NilClient, <<>>)
       ELSE IF key.err # NoErr THEN Done("error", key.err, NilClient, <<>>)
       ELSE IF sel.err # NoErr THEN Done("error", sel.err, NilClient, <<>>)
       ELSE IF ~reply.ok THEN Done("error", ErrBackend, sel.client, <<sdkCall>>)
       ELSE Done("ok", NoErr, sel.client, <<sdkCall>>)

\* AwsOss.Stat: "not found" is read off the error's message.
AwsStatOp(cl, fileName, meta, reply) ==
    LET r == AwsObjectOp(cl, fileName, meta, reply, "HeadObject")
    IN IF r.calls # <<"HeadObject">> \/ reply.ok THEN r
       ELSE IF reply.nosuchkey THEN Done("error", ErrNotExist, r.used, r.calls)
       ELSE Done("error", ErrBackend, r.used, r.calls)

\* ------------------------------------------------------------------------
\* Listing
\* ------------------------------------------------------------------------
Ord(c) == CHOOSE i \in 1..Len(Alphabet) : Alphabet[i] = c

\* a < b in byte order
KeyLess(a, b) ==
    \E i \in 1..Len(b) :
        /\ \A j \in 1..(i - 1) : j <= Len(a) /\ a[j] = b[j]
        /\ (i > Len(a) \/ (i <= Len(a) /\ Ord(a[i]) < Ord(b[i])))

HasPrefix(k, prefix) ==
    Len(prefix) <= Len(k) /\ SubSeq(k, 1, Len(prefix)) = prefix

RECURSIVE SortKeys(_)
SortKeys(S) ==
    IF S = {} THEN <<>>
    ELSE LET m == CHOOSE x \in S : \A y \in S \ {x} : KeyLess(x, y)
         IN <<m>> \o SortKeys(S \ {m})

\* The backend's listing call (ListObjectsV2 with StartAfter, ListObjects with
\* Marker): the keys under the prefix that sort after the marker, in ascending
\* order, at most maxKeys of them, truncated when more remain.
ListObjects(objs, marker, maxKeys, prefix) ==
    LET rest == SortKeys({k \in objs : HasPrefix(k, prefix) /\ KeyLess(marker, k)})
    IN [Objects |-> SubSeq(rest, 1, IF Len(rest) < maxKeys THEN Len(rest) ELSE maxKeys),
        IsTruncated |-> Len(rest) > maxKeys]

\* resp of AliCloudOSS.List, had it taken the first object as the marker
AliListResp_FirstIsMarker(object) ==
    [Files |-> object.Objects,
     Marker |-> IF Len(object.Objects) > 0 THEN object.Objects[1] ELSE <<>>,
     IsTruncated |-> object.IsTruncated]

\* resp of AliCloudOSS.List: the last object is the marker
AliListResp(object) ==
    [Files |-> object.Objects,
     Marker |-> IF Len(object.Objects) > 0 THEN object.Objects[Len(object.Objects)] ELSE <<>>,
     IsTruncated |-> object.IsTruncated]

\* resp of AwsOss.List: the marker is the key of the last entry appended
RECURSIVE AwsListLoop(_, _, _, _)
AwsListLoop(contents, i, files, marker) ==
    IF i > Len(contents) THEN [Files |-> files, Marker |-> marker]
    ELSE AwsListLoop(contents, i + 1, Append(files, contents[i]), contents[i])

AwsListResp(out) ==
    LET r == AwsListLoop(out.Objects, 1, <<>>, <<>>)
    IN [Files |-> r.Files, Marker |-> r.Marker, IsTruncated |-> out.IsTruncated]

\* AliCloudOSS.List
AliListOp(cl, objs, directoryName, metaData, bucketOk, reply, marker, pageSize) ==
    LET bucket == AliGetBucket(cl, directoryName, metaData, bucketOk)
        prefix == GetFilePrefixName(directoryName)
    IN IF bucket.outcome # "ok" THEN bucket
       ELSE IF ~reply.ok
            THEN Done("error", ErrBackend, bucket.used, Append(bucket.calls, "ListObjectsV2"))
       ELSE [Done("ok", NoErr, bucket.used, Append(bucket.calls, "ListObjectsV2"))
               EXCEPT !.resp = AliListResp(ListObjects(objs, marker, pageSize, prefix))]

\* AwsOss.List
AwsListOp(cl, objs, directoryName, meta, reply, marker, pageSize) ==
    LET bucket == GetBucketName(directoryName)
        prefix == GetFilePrefixName(directoryName)
        sel == AwsSelectClient(cl, meta)
    IN IF bucket.err # NoErr THEN Done("error", bucket.err, NilClient, <<>>)
       ELSE IF sel.err # NoErr THEN Done("error", sel.err, NilClient, <<>>)
       ELSE IF ~reply.ok THEN Done("error", ErrBackend, sel.client, <<"ListObjects">>)
       ELSE [Done("ok", NoErr, sel.client, <<"ListObjects">>)
               EXCEPT !.resp = AwsListResp(ListObjects(objs, marker, pageSize, prefix))]

\* ------------------------------------------------------------------------
\* The record of a call, and the caller's walk through a listing
\* ------------------------------------------------------------------------
OpCall(op, path, hint, reply, r) ==
    [NoCall EXCEPT !.op = op, !.outcome = r.outcome, !.err = r.err, !.path = path,
                   !.hint = hint, !.used = r.used, !.calls = r.calls,
                   !.reply = IF Len(r.calls) > 0 /\ r.calls[Len(r.calls)] # "Bucket"
                             THEN reply ELSE ReplyOK]

\* The caller's walk through a listing: it starts with the empty marker and
\* passes the marker of each response back, with the same directory, page size
\* and metadata, until a response is not truncated; acc is the concatenation
\* of the pages so far.  A failed call ends the walk.
WalkStep(w, path, hint, pageSize, r) ==
    IF r.outcome # "ok" THEN NoWalk
    ELSE IF ~w.active
         THEN [active |-> TRUE, dir |-> path, size |-> pageSize, hint |-> hint,
               marker |-> r.resp.Marker, acc |-> r.resp.Files,
               pages |-> <<Len(r.resp.Files)>>, done |-> ~r.resp.IsTruncated]
         ELSE [w EXCEPT !.marker = r.resp.Marker, !.acc = w.acc \o r.resp.Files,
                        !.pages = Append(w.pages, Len(r.resp.Files)),
                        !.done = ~r.resp.IsTruncated]

\* the requests the caller may issue next: the continuation of its walk, or
\* any first request
ListRequests(w) ==
    IF w.active /\ ~w.done
    THEN {[path |-> w.dir, hint |-> w.hint, marker |-> w.marker, pageSize |-> w.size]}
    ELSE [path : Paths, hint : Hints, marker : {<<>>}, pageSize : 1..MaxPageSize]

Replies == {ReplyOK, ReplyFail}
StatReplies == {ReplyOK} \cup ErrReplies

Frame == UNCHANGED <<kind, client, metadata, made, inited, objects>>

\* AliCloudOSS.Put
AliPut ==
    /\ kind = "alicloud"
    /\ last.op = "none"
    /\ \E path \in Paths, hint \in Hints, bucketOk \in BOOLEAN, reply \in Replies :
          /\ bucketOk \/ reply = ReplyOK
          /\ last' = OpCall("Put", path, hint, reply,
                         AliObjectOp(client, path, hint, bucketOk, reply, "PutObject"))
    /\ walk' = NoWalk
    /\ Frame

\* AliCloudOSS.Get
AliGet ==
    /\ kind = "alicloud"
    /\ last.op = "none"
    /\ \E path \in Paths, hint \in Hints, bucketOk \in BOOLEAN, reply \in Replies :
          /\ bucketOk \/ reply = ReplyOK
          /\ last' = OpCall("Get", path, hint, reply,
                         AliObjectOp(client, path, hint, bucketOk, reply, "GetObject"))
    /\ walk' = NoWalk
    /\ Frame

\* AliCloudOSS.Del
AliDel ==
    /\ kind = "alicloud"
    /\ last.op = "none"
    /\ \E path \in Paths, hint \in Hints, bucketOk \in BOOLEAN, reply \in Replies :
          /\ bucketOk \/ reply = ReplyOK
          /\ last' = OpCall("Del", path, hint, reply,
                         AliObjectOp(client, path, hint, bucketOk, reply, "DeleteObject"))
    /\ walk' = NoWalk
    /\ Frame

\* AliCloudOSS.Stat
AliStat ==
    /\ kind = "alicloud"
    /\ last.op = "none"
    /\ \E path \in Paths, hint \in Hints, bucketOk \in BOOLEAN, reply \in StatReplies :
          /\ bucketOk \/ reply = ReplyOK
          /\ last' = OpCall("Stat", path, hint, reply,
                         AliStatOp(client, path, hint, bucketOk, reply))
    /\ walk' = NoWalk
    /\ Frame

\* AliCloudOSS.List
AliList ==
    /\ kind = "alicloud"
    /\ last.op = "none"
    /\ \E req \in ListRequests(walk), bucketOk \in BOOLEAN, reply \in Replies :
          /\ bucketOk \/ reply = ReplyOK
          /\ LET r == AliListOp(client, objects, req.path, req.hint, bucketOk, reply,
                                req.marker, req.pageSize)
             IN /\ last' = OpCall("List", req.path, req.hint, reply, r)
                /\ walk' = WalkStep(walk, req.path, req.hint, req.pageSize, r)
    /\ Frame

\* AwsOss.Put
AwsPut ==
    /\ kind = "aws"
    /\ last.op = "none"
    /\ \E path \in Paths, hint \in Hints, reply \in Replies :
          last' = OpCall("Put", path, hint, reply,
                         AwsObjectOp(client, path, hint, reply, "PutObject"))
    /\ walk' = NoWalk
    /\ Frame

\* AwsOss.Get
AwsGet ==
    /\ kind = "aws"
    /\ last.op = "none"
    /\ \E path \in Paths, hint \in Hints, reply \in Replies :
          last' = OpCall("Get", path, hint, reply,
                         AwsObjectOp(client, path, hint, reply, "GetObject"))
    /\ walk' = NoWalk
    /\ Frame

\* AwsOss.Del
AwsDel ==
    /\ kind = "aws"
    /\ last.op = "none"
    /\ \E path \in Paths, hint \in Hints, reply \in Replies :
          last' = OpCall("Del", path, hint, reply,
                         AwsObjectOp(client, path, hint, reply, "DeleteObject"))
    /\ walk' = NoWalk
    /\ Frame

\* AwsOss.Stat
AwsStat ==
    /\ kind = "aws"
    /\ last.op = "none"
    /\ \E path \in Paths, hint \in Hints, reply \in StatReplies :
          last' = OpCall("Stat", path, hint, reply,
                         AwsStatOp(client, path, hint, reply))
    /\ walk' = NoWalk
    /\ Frame

\* AwsOss.List
AwsList ==
    /\ kind = "aws"
    /\ last.op = "none"
    /\ \E req \in ListRequests(walk), reply \in Replies :
          LET r == AwsListOp(client, objects, req.path, req.hint, reply,
                             req.marker, req.pageSize)
          IN /\ last' = OpCall("List", req.path, req.hint, reply, r)
             /\ walk' = WalkStep(walk, req.path, req.hint, req.pageSize, r)
    /\ Frame

\* The call returns to the caller, which takes the result; a finished walk is
\* over.
Return ==
    /\ last.op # "none"
    /\ last' = NoCall
    /\ walk' = IF walk.done THEN NoWalk ELSE walk
    /\ Frame

Next ==
    \/ AliInit \/ AliPut \/ AliGet \/ AliList \/ AliDel \/ AliStat
    \/ AwsInit \/ AwsPut \/ AwsGet \/ AwsList \/ AwsDel \/ AwsStat
    \/ Return

Spec == Init /\ [][Next]_vars

\* ------------------------------------------------------------------------
\* Listing against a bucket that holds objects: an adapter initialised with
\* the single endpoint e1, a backend holding any set of keys, and List calls.
\* ------------------------------------------------------------------------
E1Entry == [Endpoint |-> "e1", AccessKeyID |-> "A", AccessKeySecret |-> "S"]

InitList ==
    /\ kind \in {"alicloud", "aws"}
    /\ LET r == IF kind = "alicloud"
                THEN AliInitLoop(<<E1Entry>>, 1, EmptyMap, EmptyMap, 0, {})
                ELSE AwsInitLoop(<<E1Entry>>, 1, EmptyMap, EmptyMap, 0, {})
       IN /\ client = r.client
          /\ metadata = r.metadata
          /\ made = r.made
    /\ last = NoCall
    /\ inited = TRUE
    /\ objects \in {S \in SUBSET Keys : Cardinality(S) <= MaxObjects}
    /\ walk = NoWalk

NextList == AliList \/ AwsList \/ Return

SpecList == InitList /\ [][NextList]_vars


\* ========================================================================
\* Properties
\* ========================================================================
Ops == {"Put", "Get", "List", "Del", "Stat"}

\* the path parses as far as the operation needs: a bucket, and a key unless
\* the operation lists
AddrOK(op, path) ==
    /\ GetBucketName(path).err = NoErr
    /\ op = "List" \/ GetFileName(path).err = NoErr

EndpointOf(cfg) == IF kind = "alicloud" THEN cfg.Endpoint ELSE cfg.EndPoint

\* ---- C1 ----------------------------------------------------------------
\* C1: a call whose metadata names a registered endpoint e (and whose path
\* parses) runs against exactly the handle registered under e: not another
\* endpoint's handle, not a nil handle.
C1_HintedHandleUsed ==
    (last.op \in Ops /\ last.hint.has /\ last.hint.ep \in DOMAIN client
        /\ AddrOK(last.op, last.path))
    => last.used = client[last.hint.ep]

\* ---- C2 ----------------------------------------------------------------
\* C2: a call with no endpoint hint (and a path that parses) runs against the
\* single registered handle when exactly one is registered, and otherwise
\* fails with "should specific endpoint in metadata", using no handle.
C2_NoHintSelection ==
    (last.op \in Ops /\ ~last.hint.has /\ AddrOK(last.op, last.path))
    => IF \E e \in DOMAIN client : DOMAIN client = {e}
       THEN /\ \A e \in DOMAIN client : last.used = client[e]
            /\ last.err # ErrNotSpecifyEndpoint
       ELSE /\ last.outcome = "error"
            /\ last.err = ErrNotSpecifyEndpoint
            /\ last.used = NilClient
            /\ last.calls = <<>>

\* two handles registered, no hint: the call is refused
C2_Witness ==
    /\ last.op = "Get"
    /\ ~last.hint.has
    /\ AddrOK(last.op, last.path)
    /\ Cardinality(DOMAIN client) = 2
    /\ last.err = ErrNotSpecifyEndpoint

\* ---- C3 ----------------------------------------------------------------
\* C3: a call whose metadata names an endpoint that is not registered (and
\* whose path parses) fails with an error, whatever the size of the registry,
\* and uses no handle.
C3_UnknownHintFails ==
    (last.op \in Ops /\ last.hint.has /\ last.hint.ep \notin DOMAIN client
        /\ AddrOK(last.op, last.path))
    => (last.outcome = "error" /\ last.used = NilClient /\ last.calls = <<>>)

\* ---- C4 ----------------------------------------------------------------
\* C4: when the list given to the first Init holds an incomplete entry, Init
\* returns the invalid-config error and the registry holds no entry.
C4_NoPartialRegistry ==
    (last.op = "Init" /\ last.first /\ last.invalid)
    => /\ last.err \in {ErrInvalid, ErrAwsInvalidConfig}
       /\ DOMAIN client = {}
       /\ DOMAIN metadata = {}

\* ---- C5 ----------------------------------------------------------------
\* C5: a failed client construction makes Init return an error; when Init
\* returns success every declared endpoint is a key of the registry.
C5_ConstructionFailureSurfaced ==
    /\ (last.op = "Init" /\ last.ctorFailed) => last.outcome = "error"
    /\ (last.op = "Init" /\ last.outcome = "ok") => last.declared \subseteq DOMAIN client

\* ---- C6 ----------------------------------------------------------------
\* client selection as the adapter performs it for this call produced a handle
SelectionOK ==
    IF kind = "alicloud"
    THEN LET sel == AliPickClient(client, last.hint)
         IN sel.err = NoErr /\ sel.client # NilClient
    ELSE AwsSelectClient(client, last.hint).err = NoErr

\* C6: an operation whose path does not parse or whose client selection fails
\* returns an error and makes no SDK call; SDK calls are made only after both
\* succeeded.
C6_FailFastBeforeBackend ==
    last.op \in Ops =>
        /\ (~AddrOK(last.op, last.path) \/ ~SelectionOK)
              => (last.outcome = "error" /\ last.calls = <<>>)
        /\ last.calls # <<>> => (AddrOK(last.op, last.path) /\ SelectionOK)

\* ---- C7 ----------------------------------------------------------------
UnderPrefix(dir) == {k \in objects : HasPrefix(k, GetFilePrefixName(dir))}

\* C7: a walk that ran to the end returned every key under the prefix exactly
\* once, in ascending key order, in pages of at most pageSize entries.
C7_PaginationExhaustive ==
    (walk.active /\ walk.done) =>
        /\ \A k \in UnderPrefix(walk.dir) :
              Cardinality({i \in 1..Len(walk.acc) : walk.acc[i] = k}) = 1
        /\ \A i \in 1..Len(walk.acc) : walk.acc[i] \in UnderPrefix(walk.dir)
        /\ \A i, j \in 1..Len(walk.acc) : i < j => KeyLess(walk.acc[i], walk.acc[j])
        /\ \A p \in 1..Len(walk.pages) : walk.pages[p] <= walk.size

\* a finished walk of at least two pages, under a prefix that leaves some key
\* of the bucket out
C7_Witness ==
    /\ walk.active /\ walk.done
    /\ Len(walk.pages) >= 2
    /\ Len(walk.acc) >= 2
    /\ UnderPrefix(walk.dir) # objects

\* ---- C8 ----------------------------------------------------------------
StatReached ==
    /\ last.op = "Stat"
    /\ Len(last.calls) > 0
    /\ last.calls[Len(last.calls)] \in {"GetObjectMeta", "HeadObject"}

\* C8: when the backend call of Stat fails, Stat returns file.ErrNotExist
\* exactly when the backend reported 404, returns an error carrying the
\* original message otherwise, and never aborts.
C8_StatNotFoundExactly ==
    (StatReached /\ ~last.reply.ok) =>
        /\ last.outcome = "error"
        /\ last.err = (IF last.reply.status = 404 THEN ErrNotExist ELSE ErrBackend)

\* ---- C9 ----------------------------------------------------------------
\* C9: the two maps have the same keys, and the config under e names e.
C9_MapsAgree ==
    /\ DOMAIN client = DOMAIN metadata
    /\ \A e \in DOMAIN metadata : EndpointOf(metadata[e]) = e

\* a first Init that failed after registering an entry
C9_Witness ==
    /\ last.op = "Init"
    /\ last.first
    /\ last.outcome = "error"
    /\ DOMAIN client # {}

\* ---- C10 ---------------------------------------------------------------
\* C10: once the first Init call has returned, no call (Put, Get, List, Del,
\* Stat or another Init) changes either registry map.
C10_WriteOnce ==
    [][inited => (client' = client /\ metadata' = metadata)]_vars

====
